---- MODULE Spec2Model ----
(***************************************************************************)
(* State-machine model of the OpenAI chat app: the conversation store      *)
(* (ChatProvider), the chat screen's send handler with its background      *)
(* completion request, and the completion client.                          *)
(*                                                                         *)
(* React semantics that the model keeps: a handler is a closure over the   *)
(* state values of the render that created it.  A handler run from a UI    *)
(* event sees the latest committed state; the background continuation of   *)
(* sendMessage keeps the closures of the render in which the send was      *)
(* issued (addMessage with its currentConversation, selectedModel), so a   *)
(* request in flight carries those captured values.                        *)
(*                                                                         *)
(* Specifications: Spec (the app), SpecStore (the store's operations),     *)
(* SpecOverlap (the chat screen with overlapping sends), SpecList (the     *)
(* chat screen with the conversation list, one request at a time),         *)
(* SpecClient (one call of the client per fetch outcome) and SpecAuth      *)
(* (the AuthProvider with its storage operations).                         *)
(***************************************************************************)
EXTENDS Integers, Sequences, FiniteSets, TLC

(***************************************************************************)
(* Bounds of the model.                                                    *)
(***************************************************************************)
MaxClock == 2       \* Date.now() ranges over 1..MaxClock
MaxConvs == 2       \* conversations in the collection
MaxMsgs == 2        \* messages kept in the collection
MaxInflight == 1    \* completion requests in flight, with the conversation list in use
MaxOverlap == 2     \* completion requests in flight, on the chat screen alone
MaxModels == 2      \* how many entries of MODELS the picker offers here
MaxImages == 1      \* images picked for one send
MaxAuthTasks == 2   \* storage operations of the AuthProvider awaited together

(***************************************************************************)
(* Values.                                                                 *)
(***************************************************************************)
Null == [null |-> TRUE]

MODELS == <<"gpt-4o-mini", "gpt-4o", "o1-mini", "o1-preview">>

ModelIds == {MODELS[i] : i \in 1..MaxModels}

DefaultModel == "gpt-4o-mini"

NewChatTitle == "New Chat"

TitleLimit == 30

\* string | MessageContentPart[] as a tagged value
StringContent(s) == [string |-> s]

PartsContent(ps) == [parts |-> ps]

IsStringContent(c) == "string" \in DOMAIN c

TextPart(t) == [type |-> "text", text |-> t]

ImagePart(u) == [type |-> "image_url", image_url |-> [url |-> u, detail |-> "high"]]

Min(a, b) == IF a < b THEN a ELSE b

\* String.prototype.slice(0, n)
Slice(s, n) == SubSeq(s, 1, Min(n, Len(s)))

IsSpace(s, i) == SubSeq(s, i, i) \in {" ", "\t", "\n", "\r"}

\* String.prototype.trim()
Trim(s) ==
  LET keep == {i \in 1..Len(s) : ~IsSpace(s, i)}
  IN IF keep = {} THEN ""
     ELSE LET lo == CHOOSE i \in keep : \A j \in keep : i <= j
              hi == CHOOSE i \in keep : \A j \in keep : j <= i
          IN SubSeq(s, lo, hi)

\* String.prototype.includes(p)
Includes(s, p) ==
  \E i \in 1..(Len(s) - Len(p) + 1) : SubSeq(s, i, i + Len(p) - 1) = p

\* Date.now().toString()
DateNowString(t) == ToString(t)

(***************************************************************************)
(* Inputs the environment can supply.                                      *)
(***************************************************************************)
LongText == "0123456789012345678901234567890"

InputTexts == {"", " What is 2+2? ", LongText}

ImageUrl == "data:image/jpeg;base64,AAAA"

\* string | null as a tagged value
Key(k) == [key |-> k]

ApiKeys == {Key("sk-test")}

\* messages handed to addMessage by a direct caller of the store
DirectContents == {StringContent("hello")}

\* contents handed to updateLastMessage
UpdateContents == {StringContent("edited")}

(***************************************************************************)
(* State.                                                                  *)
(***************************************************************************)
VARIABLES
  conversations,        \* ChatProvider: Conversation[]
  currentConversation,  \* ChatProvider: Conversation | null
  selectedModel,        \* ChatProvider: string
  apiKey,               \* AuthProvider: string | null
  route,                \* the screen shown: "index" (LoginScreen) or "chat"
  input,                \* ChatScreen: text field
  selectedImages,       \* ChatScreen: picked images
  isLoading,            \* ChatScreen: typing indicator
  inflight,             \* completion requests not settled yet, with their closures
  now,                  \* Date.now()
  lastOp,               \* history: the handler that ran last, with its arguments
  storage,              \* AsyncStorage: the value under "openai_api_key", or null
  authIsLoading,        \* AuthProvider: isLoading
  authTasks,            \* AuthProvider: storage operations awaited, with their progress
  client                \* a call of the client under examination, with its fetch outcome

store == <<conversations, currentConversation, selectedModel>>

screen == <<input, selectedImages, isLoading>>

\* what the conversation store and the chat screen never touch
side == <<storage, authIsLoading, authTasks, client>>

vars == <<conversations, currentConversation, selectedModel, apiKey, route,
          input, selectedImages, isLoading, inflight, now, lastOp,
          storage, authIsLoading, authTasks, client>>

Init ==
  /\ conversations = <<>>
  /\ currentConversation = Null
  /\ selectedModel = DefaultModel
  /\ apiKey = Null
  /\ route = "index"
  /\ input = ""
  /\ selectedImages = <<>>
  /\ isLoading = FALSE
  /\ inflight = <<>>
  /\ now = 1
  /\ lastOp = [op |-> "init"]
  /\ storage = Null
  /\ authIsLoading = FALSE
  /\ authTasks = <<>>
  /\ client = [phase |-> "idle"]

(***************************************************************************)
(* Conversation store (ChatProvider).                                      *)
(***************************************************************************)
\* a slip: the model is not read from the selection
NewConversationDefaultModel(t, model) ==
  [id |-> DateNowString(t), title |-> NewChatTitle, messages |-> <<>>, model |-> DefaultModel]

NewConversation(t, model) ==
  [id |-> DateNowString(t), title |-> NewChatTitle, messages |-> <<>>, model |-> model]

\* message.content.find((part) => part.type === "text")
FindTextPart(ps) ==
  LET hits == {i \in 1..Len(ps) : ps[i].type = "text"}
  IN IF hits = {} THEN Null
     ELSE ps[CHOOSE i \in hits : \A j \in hits : i <= j]

MessageText(message) ==
  IF IsStringContent(message.content) THEN message.content.string
  ELSE LET textPart == FindTextPart(message.content.parts)
       IN IF textPart # Null THEN textPart.text ELSE "Image"

TitleOf(messageText) ==
  Slice(messageText, TitleLimit) \o (IF Len(messageText) > TitleLimit THEN "..." ELSE "")

\* the conversation addMessage builds from the currentConversation it closes over
AddMessageUpdated(cur, message) ==
  [cur EXCEPT !.messages = Append(cur.messages, message),
              !.title = IF Len(cur.messages) = 0 /\ message.role = "user"
                        THEN TitleOf(MessageText(message))
                        ELSE cur.title]

\* prev.map((c) => (c.id === updated.id ? updated : c))
ReplaceById(prev, updated) ==
  [i \in 1..Len(prev) |-> IF prev[i].id = updated.id THEN updated ELSE prev[i]]

\* prev.filter((c) => c.id !== id)
RECURSIVE FilterOutId(_, _)
FilterOutId(prev, id) ==
  IF prev = <<>> THEN <<>>
  ELSE (IF Head(prev).id # id THEN <<Head(prev)>> ELSE <<>>) \o FilterOutId(Tail(prev), id)

\* conversations.find((c) => c.id === id)
FindById(convs, id) ==
  LET hits == {i \in 1..Len(convs) : convs[i].id = id}
  IN IF hits = {} THEN Null
     ELSE convs[CHOOSE i \in hits : \A j \in hits : i <= j]

\* addMessage as a closure over cur, the currentConversation of the render
\* that created it
addMessage(cur, message) ==
  IF cur = Null
  THEN UNCHANGED <<conversations, currentConversation>>
  ELSE LET updated == AddMessageUpdated(cur, message)
       IN /\ currentConversation' = updated
          /\ conversations' = ReplaceById(conversations, updated)

\* a slip: a message with the content is pushed, the last one is not patched
UpdateLastPushes(cur, content) ==
  [cur EXCEPT !.messages = Append(cur.messages, [id |-> "m1", role |-> "assistant", content |-> content])]

UpdateLastUpdated(cur, content) ==
  LET n == Len(cur.messages)
  IN [cur EXCEPT !.messages =
        IF n > 0 THEN [cur.messages EXCEPT ![n] = [cur.messages[n] EXCEPT !.content = content]]
        ELSE cur.messages]

ClearedConversation(cur) ==
  [cur EXCEPT !.messages = <<>>, !.title = NewChatTitle]

RECURSIVE TotalMessages(_)
TotalMessages(convs) ==
  IF convs = <<>> THEN 0 ELSE Len(Head(convs).messages) + TotalMessages(Tail(convs))

\* the model's bound on stored messages: room more fit beside those kept so far
FitsBound(cur, room) ==
  IF cur = Null THEN TRUE
  ELSE /\ Len(cur.messages) + room <= MaxMsgs
       /\ TotalMessages(conversations) + room <= MaxMsgs

createConversation ==
  /\ Len(conversations) < MaxConvs
  /\ LET newConv == NewConversation(now, selectedModel)
     IN /\ conversations' = <<newConv>> \o conversations
        /\ currentConversation' = newConv
  /\ lastOp' = [op |-> "createConversation"]
  /\ UNCHANGED <<selectedModel, apiKey, route, screen, inflight, now, side>>

CallAddMessage(message) ==
  /\ FitsBound(currentConversation, 1)
  /\ addMessage(currentConversation, message)
  /\ lastOp' = [op |-> "addMessage"]
  /\ UNCHANGED <<selectedModel, apiKey, route, screen, inflight, now, side>>

updateLastMessage(content) ==
  /\ IF currentConversation = Null
     THEN UNCHANGED <<conversations, currentConversation>>
     ELSE LET updated == UpdateLastUpdated(currentConversation, content)
          IN /\ currentConversation' = updated
             /\ conversations' = ReplaceById(conversations, updated)
  /\ lastOp' = [op |-> "updateLastMessage", content |-> content,
                repeat |-> IF lastOp.op = "updateLastMessage"
                           THEN lastOp.content = content
                           ELSE FALSE]
  /\ UNCHANGED <<selectedModel, apiKey, route, screen, inflight, now, side>>

\* a slip: the stored model is not adopted
selectConversationKeepsModel(id) ==
  /\ LET conv == FindById(conversations, id)
     IN IF conv # Null
        THEN currentConversation' = conv
        ELSE UNCHANGED currentConversation
  /\ lastOp' = [op |-> "selectConversation", id |-> id,
                afterDeleteOfCurrent |-> IF lastOp.op = "deleteConversation"
                                         THEN lastOp.wasCurrent /\ lastOp.id = id
                                         ELSE FALSE]
  /\ UNCHANGED <<conversations, selectedModel, apiKey, route, screen, inflight, now, side>>

selectConversation(id) ==
  /\ LET conv == FindById(conversations, id)
     IN IF conv # Null
        THEN /\ currentConversation' = conv
             /\ selectedModel' = conv.model
        ELSE UNCHANGED <<currentConversation, selectedModel>>
  /\ lastOp' = [op |-> "selectConversation", id |-> id,
                afterDeleteOfCurrent |-> IF lastOp.op = "deleteConversation"
                                         THEN lastOp.wasCurrent /\ lastOp.id = id
                                         ELSE FALSE]
  /\ UNCHANGED <<conversations, apiKey, route, screen, inflight, now, side>>

\* a slip: the current pointer is not cleared
deleteConversationKeepsCurrent(id) ==
  /\ conversations' = FilterOutId(conversations, id)
  /\ lastOp' = [op |-> "deleteConversation", id |-> id,
                wasCurrent |-> IF currentConversation = Null THEN FALSE
                               ELSE currentConversation.id = id]
  /\ UNCHANGED <<currentConversation, selectedModel, apiKey, route, screen, inflight, now, side>>

\* a slip: after deleting the current conversation the first remaining one is selected
deleteConversationSelectsNext(id) ==
  /\ conversations' = FilterOutId(conversations, id)
  /\ IF currentConversation # Null /\ currentConversation.id = id
     THEN currentConversation' =
            IF FilterOutId(conversations, id) = <<>> THEN Null
            ELSE Head(FilterOutId(conversations, id))
     ELSE UNCHANGED currentConversation
  /\ lastOp' = [op |-> "deleteConversation", id |-> id,
                wasCurrent |-> IF currentConversation = Null THEN FALSE
                               ELSE currentConversation.id = id]
  /\ UNCHANGED <<selectedModel, apiKey, route, screen, inflight, now, side>>

deleteConversation(id) ==
  /\ conversations' = FilterOutId(conversations, id)
  /\ IF currentConversation # Null /\ currentConversation.id = id
     THEN currentConversation' = Null
     ELSE UNCHANGED currentConversation
  /\ lastOp' = [op |-> "deleteConversation", id |-> id,
                wasCurrent |-> IF currentConversation = Null THEN FALSE
                               ELSE currentConversation.id = id]
  /\ UNCHANGED <<selectedModel, apiKey, route, screen, inflight, now, side>>

\* a slip: no early return, so { ...null, messages: [], title } becomes current
clearCurrentConversationNoGuard ==
  /\ IF currentConversation = Null
     THEN /\ currentConversation' = [messages |-> <<>>, title |-> NewChatTitle]
          /\ UNCHANGED conversations
     ELSE LET clearedConversation == ClearedConversation(currentConversation)
          IN /\ currentConversation' = clearedConversation
             /\ conversations' = ReplaceById(conversations, clearedConversation)
  /\ lastOp' = [op |-> "clearCurrentConversation"]
  /\ UNCHANGED <<selectedModel, apiKey, route, screen, inflight, now, side>>

clearCurrentConversation ==
  /\ IF currentConversation = Null
     THEN UNCHANGED <<conversations, currentConversation>>
     ELSE LET clearedConversation == ClearedConversation(currentConversation)
          IN /\ currentConversation' = clearedConversation
             /\ conversations' = ReplaceById(conversations, clearedConversation)
  /\ lastOp' = [op |-> "clearCurrentConversation"]
  /\ UNCHANGED <<selectedModel, apiKey, route, screen, inflight, now, side>>

setSelectedModel(model) ==
  /\ selectedModel' = model
  /\ lastOp' = [op |-> "setSelectedModel"]
  /\ UNCHANGED <<conversations, currentConversation, apiKey, route, screen, inflight, now, side>>

(***************************************************************************)
(* Completion client (services/openai.ts).  A response is what fetch       *)
(* settles with: a rejection (transport failure) or an HTTP response with  *)
(* a status, a status text and a body that parses as JSON or does not.     *)
(***************************************************************************)
Unparsable == [unparsable |-> TRUE]

EmptyObject == [empty |-> TRUE]

HasField(obj, f) == f \in DOMAIN obj

Threw(message) == [threw |-> TRUE, error |-> [message |-> message]]

Returned(value) == [threw |-> FALSE, value |-> value]

\* a slip: only 200 counts as success
ResponseOkOnly200(response) == response.status = 200

\* response.ok
ResponseOk(response) == response.status >= 200 /\ response.status <= 299

JsonParseError == "JSON Parse error: Unexpected token"

\* errorData?.error?.message || `HTTP ${response.status}: ${response.statusText}`
ErrorMessageOf(response) ==
  LET errorData == IF response.body = Unparsable THEN EmptyObject ELSE response.body
      fallback == "HTTP " \o ToString(response.status) \o ": " \o response.statusText
  IN IF /\ HasField(errorData, "error")
        /\ HasField(errorData.error, "message")
        /\ errorData.error.message # ""
     THEN errorData.error.message
     ELSE fallback

\* chat.completions.create: what the awaited call settles with
ChatCompletionsCreate(response) ==
  IF response.kind = "reject" THEN Threw(response.message)
  ELSE IF ~ResponseOk(response) THEN Threw(ErrorMessageOf(response))
  ELSE IF response.body = Unparsable THEN Threw(JsonParseError)
  ELSE Returned(response.body)

Response200 ==
  [kind |-> "http", status |-> 200, statusText |-> "OK",
   body |-> [choices |-> <<[message |-> [role |-> "assistant", content |-> " 21 - B "]]>>,
             usage |-> [total_tokens |-> 42]]]

Response401 ==
  [kind |-> "http", status |-> 401, statusText |-> "Unauthorized",
   body |-> [error |-> [message |-> "Incorrect API key"]]]

ResponseNetworkDown == [kind |-> "reject", message |-> "Network request failed"]

Responses == {Response200, Response401, ResponseNetworkDown}

\* a slip: the status of the models response is not looked at
ModelsListNoStatusCheck(response) ==
  IF response.kind = "reject" THEN Threw(response.message)
  ELSE IF response.body = Unparsable THEN Threw(JsonParseError)
  ELSE Returned(response.body)

\* models.list: what the awaited call settles with
ModelsList(response) ==
  IF response.kind = "reject" THEN Threw(response.message)
  ELSE IF ~ResponseOk(response) THEN Threw("Failed to fetch models")
  ELSE IF response.body = Unparsable THEN Threw(JsonParseError)
  ELSE Returned(response.body)

\* validateApiKey: try { await client.models.list(); return true } catch { return false }
ValidateApiKey(response) ==
  IF ModelsList(response).threw THEN FALSE ELSE TRUE

\* statuses and bodies an endpoint (or a proxy, a captive portal) can answer with
Statuses ==
  {<<200, "OK">>, <<204, "No Content">>, <<299, "">>, <<300, "Multiple Choices">>,
   <<401, "Unauthorized">>, <<429, "Too Many Requests">>, <<500, "Internal Server Error">>}

Bodies ==
  {Unparsable,
   EmptyObject,
   [error |-> [message |-> "Incorrect API key"]],
   [error |-> [message |-> ""]],
   [error |-> [code |-> "invalid_api_key"]],
   [object |-> "list", data |-> <<>>],
   Response200.body}

\* what fetch can settle with in a call of the client
FetchOutcomes ==
  {[kind |-> "http", status |-> s[1], statusText |-> s[2], body |-> b] :
     s \in Statuses, b \in Bodies}
    \cup {ResponseNetworkDown}

\* chat.completions.create awaited by the background task of sendMessage
AwaitCreate ==
  /\ client.phase = "fetched"
  /\ client' = [phase |-> "created", response |-> client.response,
                settled |-> ChatCompletionsCreate(client.response)]
  /\ lastOp' = [op |-> "awaitCreate"]
  /\ UNCHANGED <<store, apiKey, route, screen, inflight, now, storage, authIsLoading, authTasks>>

\* validateApiKey awaited by handleLogin
AwaitValidateApiKey ==
  /\ client.phase = "fetched"
  /\ client' = [phase |-> "validated", response |-> client.response,
                settled |-> Returned(ValidateApiKey(client.response))]
  /\ lastOp' = [op |-> "awaitValidateApiKey"]
  /\ UNCHANGED <<store, apiKey, route, screen, inflight, now, storage, authIsLoading, authTasks>>

(***************************************************************************)
(* Chat screen (app/chat.tsx).                                             *)
(***************************************************************************)
\* stands for the warning sign U+26A0 U+FE0F, which a TLA+ string cannot hold
WarningGlyph == "(!)"

TypeErrorMessage == "Cannot read property 'message' of undefined"

\* the try block after the await: the formatted answer, or what it throws
FormatCompletion(completion) ==
  IF ~HasField(completion, "choices") \/ Len(completion.choices) = 0
  THEN Threw(TypeErrorMessage)
  ELSE LET totalTokens == IF HasField(completion, "usage") THEN completion.usage.total_tokens ELSE 0
           rawAnswer == completion.choices[1].message.content
       IN Returned(Trim(rawAnswer) \o "    [" \o ToString(totalTokens) \o "]")

\* the catch block's choice of a user-facing message
UserFacingError(error, model) ==
  IF Includes(error.message, "401") \/ Includes(error.message, "Unauthorized")
  THEN "Invalid API key. Please check your API key and try again."
  ELSE IF Includes(error.message, "429")
  THEN "Rate limit exceeded. Please wait a moment and try again."
  ELSE IF \/ Includes(error.message, "500")
          \/ Includes(error.message, "502")
          \/ Includes(error.message, "503")
  THEN "OpenAI server error. Please try again later."
  ELSE IF Includes(error.message, "model")
  THEN "Model \"" \o model \o "\" is not available. Please select a different model."
  ELSE IF error.message # "" THEN error.message
  ELSE "Something went wrong. Please try again."

\* the assistant message the background task hands to addMessage
AssistantMessage(response, model, t) ==
  LET settled == ChatCompletionsCreate(response)
      answer == IF settled.threw THEN settled ELSE FormatCompletion(settled.value)
  IN [id |-> DateNowString(t + 1),
      role |-> "assistant",
      content |-> StringContent(
        IF answer.threw
        THEN WarningGlyph \o " Error: " \o UserFacingError(answer.error, model)
        ELSE answer.value)]

\* the background task after the await: try, catch and the message for addMessage
HandleSettled ==
  /\ client.phase = "created"
  /\ client' = [phase |-> "handled", response |-> client.response,
                settled |-> client.settled,
                message |-> AssistantMessage(client.response, selectedModel, now)]
  /\ lastOp' = [op |-> "handleSettled"]
  /\ UNCHANGED <<store, apiKey, route, screen, inflight, now, storage, authIsLoading, authTasks>>

ContentParts(text, images) ==
  (IF Trim(text) # "" THEN <<TextPart(Trim(text))>> ELSE <<>>)
    \o [i \in 1..Len(images) |-> ImagePart(images[i])]

UserMessage(text, images, t) ==
  [id |-> DateNowString(t), role |-> "user", content |-> PartsContent(ContentParts(text, images))]

setInput(text) ==
  /\ route = "chat"
  /\ input' = text
  /\ lastOp' = [op |-> "setInput"]
  /\ UNCHANGED <<store, apiKey, route, selectedImages, isLoading, inflight, now, side>>

pickImage ==
  /\ route = "chat"
  /\ Len(selectedImages) < MaxImages
  /\ selectedImages' = selectedImages \o <<ImageUrl>>
  /\ lastOp' = [op |-> "pickImage"]
  /\ UNCHANGED <<store, apiKey, route, input, isLoading, inflight, now, side>>

removeImage(index) ==
  /\ route = "chat"
  /\ selectedImages' = SubSeq(selectedImages, 1, index - 1)
                         \o SubSeq(selectedImages, index + 1, Len(selectedImages))
  /\ lastOp' = [op |-> "removeImage"]
  /\ UNCHANGED <<store, apiKey, route, input, isLoading, inflight, now, side>>

\* useEffect: create the initial conversation
InitialConversationEffect ==
  /\ route = "chat"
  /\ apiKey # Null /\ currentConversation = Null
  /\ Len(conversations) < MaxConvs
  /\ LET newConv == NewConversation(now, selectedModel)
     IN /\ conversations' = <<newConv>> \o conversations
        /\ currentConversation' = newConv
  /\ lastOp' = [op |-> "initialConversationEffect"]
  /\ UNCHANGED <<selectedModel, apiKey, route, screen, inflight, now, side>>

\* the handler up to the first await: the user turn is appended and the
\* request leaves with the closures of this render; nothing in the handler or
\* in the send button looks at isLoading or at the requests in flight
sendMessage ==
  /\ route = "chat"
  /\ IF (Trim(input) = "" /\ Len(selectedImages) = 0) THEN FALSE ELSE apiKey # Null
  /\ LET userMessage == UserMessage(input, selectedImages, now)
     IN /\ addMessage(currentConversation, userMessage)
        /\ inflight' = Append(inflight,
                              [currentConversation |-> currentConversation,
                               selectedModel |-> selectedModel,
                               userMessage |-> userMessage])
        /\ lastOp' = [op |-> "sendMessage"]
  /\ input' = ""
  /\ selectedImages' = <<>>
  /\ isLoading' = TRUE
  /\ UNCHANGED <<selectedModel, apiKey, route, now, side>>

RemoveAt(seq, i) == SubSeq(seq, 1, i - 1) \o SubSeq(seq, i + 1, Len(seq))

\* the background task from the await to its finally block
settle(i, response) ==
  LET request == inflight[i]
      assistantMessage == AssistantMessage(response, request.selectedModel, now)
  IN /\ addMessage(request.currentConversation, assistantMessage)
     /\ isLoading' = FALSE
     /\ inflight' = RemoveAt(inflight, i)
     /\ lastOp' = [op |-> "settle", i |-> i, response |-> response]
     /\ UNCHANGED <<selectedModel, apiKey, route, input, selectedImages, now, side>>

(***************************************************************************)
(* Authentication and navigation.                                          *)
(***************************************************************************)
\* AuthProvider: setApiKeyState(key), from the initial load or from setApiKey
setApiKeyState(key) ==
  /\ apiKey = Null
  /\ apiKey' = key
  /\ lastOp' = [op |-> "setApiKeyState"]
  /\ UNCHANGED <<store, route, screen, inflight, now, side>>

\* LoginScreen effect: router.replace("/chat") once a key is saved
navigateToChat ==
  /\ route = "index"
  /\ apiKey # Null
  /\ route' = "chat"
  /\ lastOp' = [op |-> "navigateToChat"]
  /\ UNCHANGED <<store, apiKey, screen, inflight, now, side>>

\* the values a consumer hands to setApiKey: a key, or null to sign out
AuthKeys == {Null, Key("sk-test"), Key("sk-new")}

\* what AsyncStorage holds when the provider mounts
StoredAtMount == {Null, Key("sk-old")}

\* the initial load: AsyncStorage.getItem("openai_api_key"), issued by the effect
LoadTask == [kind |-> "load", phase |-> "issued"]

\* setApiKey up to its await: setItem or removeItem is issued
setApiKey(key) ==
  /\ Len(authTasks) < MaxAuthTasks
  /\ authTasks' = Append(authTasks, [kind |-> "set", phase |-> "issued", key |-> key])
  /\ lastOp' = [op |-> "setApiKey"]
  /\ UNCHANGED <<store, apiKey, route, screen, inflight, now, storage, authIsLoading, client>>

\* AsyncStorage performs an operation that was issued; operations issued
\* together complete in an order the provider does not control
StorageCompletes(i) ==
  /\ authTasks[i].phase = "issued"
  /\ IF authTasks[i].kind = "load"
     THEN /\ authTasks' = [authTasks EXCEPT ![i] =
                             [kind |-> "load", phase |-> "done", key |-> storage]]
          /\ UNCHANGED storage
     ELSE /\ authTasks' = [authTasks EXCEPT ![i].phase = "done"]
          /\ storage' = authTasks[i].key
  /\ lastOp' = [op |-> "storageCompletes"]
  /\ UNCHANGED <<store, apiKey, route, screen, inflight, now, authIsLoading, client>>

\* the initial load's then-callback: setApiKeyState(key); setIsLoading(false)
LoadThen(i) ==
  /\ authTasks[i].kind = "load" /\ authTasks[i].phase = "done"
  /\ apiKey' = authTasks[i].key
  /\ authIsLoading' = FALSE
  /\ authTasks' = RemoveAt(authTasks, i)
  /\ lastOp' = [op |-> "loadThen"]
  /\ UNCHANGED <<store, route, screen, inflight, now, storage, client>>

\* setApiKey after its await: setApiKeyState(key)
setApiKeyResumes(i) ==
  /\ authTasks[i].kind = "set" /\ authTasks[i].phase = "done"
  /\ apiKey' = authTasks[i].key
  /\ authTasks' = RemoveAt(authTasks, i)
  /\ lastOp' = [op |-> "setApiKeyResumes"]
  /\ UNCHANGED <<store, route, screen, inflight, now, storage, authIsLoading, client>>

\* the clock advances
Tick ==
  /\ now < MaxClock
  /\ now' = now + 1
  /\ lastOp' = [op |-> "tick"]
  /\ UNCHANGED <<store, apiKey, route, screen, inflight, side>>

ConversationIds == {DateNowString(t) : t \in 1..MaxClock}

DirectMessages ==
  {[id |-> "m1", role |-> r, content |-> c] :
     r \in {"user", "assistant"}, c \in DirectContents}

\* the store's operations, called by any consumer of useChat()
StoreNext ==
  \/ createConversation
  \/ \E message \in DirectMessages : CallAddMessage(message)
  \/ \E content \in UpdateContents : updateLastMessage(content)
  \/ \E id \in ConversationIds : selectConversation(id)
  \/ \E id \in ConversationIds : deleteConversation(id)
  \/ clearCurrentConversation
  \/ \E model \in ModelIds : setSelectedModel(model)
  \/ Tick

\* the app: login, the chat screen and the operations of the conversation list
Next ==
  \/ \E key \in ApiKeys : setApiKeyState(key)
  \/ navigateToChat
  \/ InitialConversationEffect
  \/ \E text \in InputTexts : setInput(text)
  \/ pickImage
  \/ \E index \in 1..Len(selectedImages) : removeImage(index)
  \/ (Len(inflight) < MaxInflight /\ FitsBound(currentConversation, 2) /\ sendMessage)
  \/ \E i \in 1..Len(inflight), response \in Responses : settle(i, response)
  \/ \E model \in ModelIds : setSelectedModel(model)
  \/ createConversation
  \/ \E id \in ConversationIds : selectConversation(id)
  \/ \E id \in ConversationIds : deleteConversation(id)
  \/ clearCurrentConversation
  \/ Tick

Spec == Init /\ [][Next]_vars

\* one call of the client, for each outcome of fetch and each selected model
InitClient ==
  /\ conversations = <<>>
  /\ currentConversation = Null
  /\ selectedModel \in ModelIds
  /\ apiKey \in ApiKeys
  /\ route = "chat"
  /\ input = ""
  /\ selectedImages = <<>>
  /\ isLoading = FALSE
  /\ inflight = <<>>
  /\ now = 1
  /\ lastOp = [op |-> "init"]
  /\ storage = Null
  /\ authIsLoading = FALSE
  /\ authTasks = <<>>
  /\ client \in {[phase |-> "fetched", response |-> r] : r \in FetchOutcomes}

NextClient ==
  \/ AwaitCreate
  \/ HandleSettled
  \/ AwaitValidateApiKey

SpecClient == InitClient /\ [][NextClient]_vars

\* the AuthProvider after its first render: the effect has issued the load
InitAuth ==
  /\ conversations = <<>>
  /\ currentConversation = Null
  /\ selectedModel = DefaultModel
  /\ apiKey = Null
  /\ route = "index"
  /\ input = ""
  /\ selectedImages = <<>>
  /\ isLoading = FALSE
  /\ inflight = <<>>
  /\ now = 1
  /\ lastOp = [op |-> "init"]
  /\ storage \in StoredAtMount
  /\ authIsLoading = TRUE
  /\ authTasks = <<LoadTask>>
  /\ client = [phase |-> "idle"]

\* the AuthProvider, setApiKey called by any consumer of useAuth()
NextAuth ==
  \/ \E key \in AuthKeys : setApiKey(key)
  \/ \E i \in 1..Len(authTasks) : StorageCompletes(i)
  \/ \E i \in 1..Len(authTasks) : LoadThen(i)
  \/ \E i \in 1..Len(authTasks) : setApiKeyResumes(i)

SpecAuth == InitAuth /\ [][NextAuth]_vars

SpecStore == Init /\ [][StoreNext]_vars

\* the model's bound for overlapping sends: the current conversation has room
OverlapFits ==
  IF currentConversation = Null THEN TRUE
  ELSE Len(currentConversation.messages) < MaxMsgs

\* the chat screen alone, with sends issued while earlier requests are in flight
NextOverlap ==
  \/ \E key \in ApiKeys : setApiKeyState(key)
  \/ navigateToChat
  \/ InitialConversationEffect
  \/ \E text \in InputTexts : setInput(text)
  \/ pickImage
  \/ (Len(inflight) < MaxOverlap /\ OverlapFits /\ sendMessage)
  \/ \E i \in 1..Len(inflight), response \in Responses : settle(i, response)
  \/ Tick

SpecOverlap == Init /\ [][NextOverlap]_vars

\* the chat screen with one question text and the conversation list, a send
\* issued only when no request is in flight (overlapping sends: SpecOverlap)
NextList ==
  \/ \E key \in ApiKeys : setApiKeyState(key)
  \/ navigateToChat
  \/ InitialConversationEffect
  \/ setInput(" What is 2+2? ")
  \/ (inflight = <<>> /\ FitsBound(currentConversation, 2) /\ sendMessage)
  \/ \E i \in 1..Len(inflight), response \in Responses : settle(i, response)
  \/ createConversation
  \/ \E id \in ConversationIds : selectConversation(id)
  \/ \E id \in ConversationIds : deleteConversation(id)
  \/ Tick

SpecList == Init /\ [][NextList]_vars

(***************************************************************************)
(* Properties.                                                             *)
(***************************************************************************)
Members(convs) == {convs[i] : i \in 1..Len(convs)}

\* the request that the step settles, taken before the step
SettledRequest == inflight[lastOp'.i]

\* between the send and the settlement nothing else touched the conversation
\* that issued request r: the collection holds it as the send left it
Undisturbed(r) ==
  /\ r.currentConversation # Null
  /\ LET conv == FindById(conversations, r.currentConversation.id)
     IN /\ conv # Null
        /\ conv.messages = Append(r.currentConversation.messages, r.userMessage)
        /\ currentConversation = conv

\* C1: in every reachable state the current conversation is null or equal
\* (id, title, messages, model) to a member of the collection.
C1_CurrentIsMember ==
  currentConversation = Null \/ currentConversation \in Members(conversations)

\* C2: when the request of a send issued in a current conversation settles,
\* that conversation's messages are the messages before the send, then the
\* user turn, then exactly one assistant turn; the user turn is not lost.
C2_SendThenSettleAppendsBoth ==
  [][(lastOp'.op = "settle" /\ Undisturbed(SettledRequest)) =>
       LET r == SettledRequest
           conv == FindById(conversations', r.currentConversation.id)
           n == Len(r.currentConversation.messages)
       IN /\ conv # Null
          /\ Len(conv.messages) = n + 2
          /\ SubSeq(conv.messages, 1, n) = r.currentConversation.messages
          /\ conv.messages[n + 1] = r.userMessage
          /\ conv.messages[n + 2].role = "assistant"]_vars

\* C3: no two conversations of the collection have the same identifier.
C3_UniqueIds ==
  \A i, j \in 1..Len(conversations) :
    i # j => conversations[i].id # conversations[j].id

\* the title the claim C4 expects for a first user-authored message
ExpectedTitle(message) ==
  LET texts == IF IsStringContent(message.content) THEN <<message.content.string>>
               ELSE LET ps == message.content.parts
                        idx == {i \in 1..Len(ps) : ps[i].type = "text"}
                    IN IF idx = {} THEN <<>>
                       ELSE <<ps[CHOOSE i \in idx : \A j \in idx : i <= j].text>>
  IN IF texts = <<>> THEN "Image"
     ELSE IF Len(texts[1]) <= 30 THEN texts[1]
     ELSE SubSeq(texts[1], 1, 30) \o "..."

\* C4: on a fresh conversation the title equals the (truncated) text of the
\* first user-authored message, also after the assistant message of the
\* settled request has been appended.
C4_TitleIsFirstUserText ==
  [][(/\ lastOp'.op = "settle"
      /\ Undisturbed(SettledRequest)
      /\ SettledRequest.currentConversation.messages = <<>>) =>
       LET r == SettledRequest
           conv == FindById(conversations', r.currentConversation.id)
       IN conv # Null /\ conv.title = ExpectedTitle(r.userMessage)]_vars

\* the step is a call of createConversation (by a caller or by the effect)
IsCreate == lastOp'.op \in {"createConversation", "initialConversationEffect"}

\* C5: createConversation inserts at the head an empty conversation titled
\* "New Chat" with the model selected at the call, makes it current, and
\* leaves the conversations that existed unchanged and in their order.
C5_CreateInsertsAtHead ==
  [][IsCreate =>
       /\ Len(conversations') = Len(conversations) + 1
       /\ Head(conversations').messages = <<>>
       /\ Head(conversations').title = "New Chat"
       /\ Head(conversations').model = selectedModel
       /\ currentConversation' = Head(conversations')
       /\ Tail(conversations') = conversations
       /\ selectedModel' = selectedModel]_vars

C5_Witness ==
  /\ lastOp.op = "createConversation"
  /\ Len(conversations) = 2
  /\ conversations[2].messages # <<>>
  /\ currentConversation.model # DefaultModel

\* C6: deleting the current conversation leaves the current pointer null and
\* no conversation with that id in the collection, and a selectConversation
\* of that id right after changes nothing: the current pointer stays null.
C6_DeleteCurrentThenSelect ==
  [][/\ (lastOp'.op = "deleteConversation" /\ lastOp'.wasCurrent) =>
          /\ currentConversation' = Null
          /\ \A c \in Members(conversations') : c.id # lastOp'.id
     /\ (lastOp'.op = "selectConversation" /\ lastOp'.afterDeleteOfCurrent) =>
          /\ currentConversation' = Null
          /\ conversations' = conversations
          /\ selectedModel' = selectedModel]_vars

C6_Witness ==
  /\ lastOp.op = "selectConversation"
  /\ lastOp.afterDeleteOfCurrent
  /\ currentConversation = Null
  /\ conversations # <<>>

\* C7: selectConversation(id) with an absent id leaves collection, current
\* conversation and selected model unchanged; with a present id it makes that
\* conversation current, adopts its stored model and leaves the collection.
C7_SelectConversation ==
  [][lastOp'.op = "selectConversation" =>
       IF \E c \in Members(conversations) : c.id = lastOp'.id
       THEN /\ currentConversation' \in Members(conversations)
            /\ currentConversation'.id = lastOp'.id
            /\ selectedModel' = currentConversation'.model
            /\ conversations' = conversations
       ELSE /\ currentConversation' = currentConversation
            /\ selectedModel' = selectedModel
            /\ conversations' = conversations]_vars

C7_Witness ==
  /\ lastOp.op = "selectConversation"
  /\ Len(conversations) = 2
  /\ currentConversation = conversations[2]
  /\ conversations[1].id # lastOp.id
  /\ conversations[1].model # selectedModel

\* C8: with no current conversation addMessage, updateLastMessage and
\* clearCurrentConversation leave the collection, the (null) current pointer
\* and the selected model unchanged.
C8_NoCurrentNoOp ==
  [][(/\ currentConversation = Null
      /\ lastOp'.op \in {"addMessage", "updateLastMessage", "clearCurrentConversation"}) =>
       /\ conversations' = conversations
       /\ currentConversation' = Null
       /\ selectedModel' = selectedModel]_vars

C8_Witness ==
  /\ lastOp.op = "clearCurrentConversation"
  /\ currentConversation = Null
  /\ conversations # <<>>

\* C9: updateLastMessage on a non-empty current conversation replaces only
\* the content of the final message (its id and role, the earlier messages,
\* the length, title, id and model stay) and every other conversation of the
\* collection is unchanged; on an empty message sequence nothing changes.
C9_UpdateLastMessageFrame ==
  [][(lastOp'.op = "updateLastMessage" /\ currentConversation # Null) =>
       LET cur == currentConversation
           n == Len(cur.messages)
       IN IF n = 0
          THEN conversations' = conversations /\ currentConversation' = cur
          ELSE /\ currentConversation'.id = cur.id
               /\ currentConversation'.title = cur.title
               /\ currentConversation'.model = cur.model
               /\ Len(currentConversation'.messages) = n
               /\ SubSeq(currentConversation'.messages, 1, n - 1) = SubSeq(cur.messages, 1, n - 1)
               /\ currentConversation'.messages[n].id = cur.messages[n].id
               /\ currentConversation'.messages[n].role = cur.messages[n].role
               /\ Len(conversations') = Len(conversations)
               /\ \A j \in 1..Len(conversations) :
                    conversations[j] # cur => conversations'[j] = conversations[j]]_vars

\* C10: clearCurrentConversation with a current conversation empties its
\* messages and resets its title, keeps its id and model, applies the same
\* change to the matching member of the collection and leaves every other
\* conversation and the selected model unchanged.
C10_ClearFrame ==
  [][(lastOp'.op = "clearCurrentConversation" /\ currentConversation # Null) =>
       LET cur == currentConversation
       IN /\ currentConversation' =
               [id |-> cur.id, title |-> "New Chat", messages |-> <<>>, model |-> cur.model]
          /\ selectedModel' = selectedModel
          /\ Len(conversations') = Len(conversations)
          /\ \A j \in 1..Len(conversations) :
               conversations'[j] =
                 IF conversations[j].id = cur.id
                 THEN [id |-> conversations[j].id, title |-> "New Chat",
                       messages |-> <<>>, model |-> conversations[j].model]
                 ELSE conversations[j]]_vars

\* the text of a user-facing message as the assistant message shows it
ErrorContent(text) == StringContent(WarningGlyph \o " Error: " \o text)

\* C11: when the completion endpoint answers 401 with the JSON body
\* {"error":{"message":"Incorrect API key"}}, the client fails with the
\* message "Incorrect API key" and the assistant message the caller builds
\* carries the "Invalid API key" user-facing string.
C11_IncorrectKeyMapsToInvalidKey ==
  (client.phase = "handled" /\ client.response = Response401) =>
     /\ client.settled = Threw("Incorrect API key")
     /\ client.message.role = "assistant"
     /\ client.message.content =
          ErrorContent("Invalid API key. Please check your API key and try again.")

\* the message the claim C12 expects of a failed call
ExpectedFailure(r) ==
  IF /\ r.body # Unparsable
     /\ "error" \in DOMAIN r.body
     /\ "message" \in DOMAIN r.body.error
     /\ r.body.error.message # ""
  THEN r.body.error.message
  ELSE "HTTP " \o ToString(r.status) \o ": " \o r.statusText

Is2xx(r) == r.status \in 200..299

\* C12 as stated: chat.completions.create fails on every non-2xx response,
\* with the body's error.message when the body parses and carries a non-empty
\* one and with "HTTP <status>: <statusText>" otherwise; on every 2xx response
\* it returns the parsed body untransformed and does not fail.
C12_CreateByStatus ==
  (client.phase = "created" /\ client.response.kind = "http") =>
     LET r == client.response
     IN IF Is2xx(r)
        THEN ~client.settled.threw /\ client.settled = Returned(r.body)
        ELSE client.settled = Threw(ExpectedFailure(r))

\* C12 amended: as stated for non-2xx responses; on a 2xx response the call
\* returns the parsed body untransformed when the body parses as JSON and
\* fails with the parse error when it does not.
C12_CreateByStatusAndBody ==
  (client.phase = "created" /\ client.response.kind = "http") =>
     LET r == client.response
     IN IF Is2xx(r)
        THEN IF r.body = Unparsable
             THEN client.settled = Threw(JsonParseError)
             ELSE client.settled = Returned(r.body)
        ELSE client.settled = Threw(ExpectedFailure(r))

C12_Witness ==
  /\ client.phase = "created"
  /\ client.response.kind = "http"
  /\ client.response.status = 204
  /\ client.response.body = Unparsable
  /\ client.settled.threw

IssuedFrom(request) == request.currentConversation

\* C14: questions are processed sequentially: at no time are two completion
\* requests issued from the same conversation in flight together.
C14_OneRequestPerConversation ==
  \A i, j \in 1..Len(inflight) :
    (i # j /\ IssuedFrom(inflight[i]) # Null /\ IssuedFrom(inflight[j]) # Null) =>
       IssuedFrom(inflight[i]).id # IssuedFrom(inflight[j]).id

\* C15: updateLastMessage is idempotent: calling updateLastMessage(content)
\* a second time right after a call with the same content changes neither
\* the collection nor the current conversation.
C15_UpdateLastMessageIdempotent ==
  [][(lastOp'.op = "updateLastMessage" /\ lastOp'.repeat) =>
       /\ conversations' = conversations
       /\ currentConversation' = currentConversation]_vars

C15_Witness ==
  /\ lastOp.op = "updateLastMessage"
  /\ lastOp.repeat
  /\ Len(conversations) = 2
  /\ currentConversation # Null
  /\ currentConversation.messages # <<>>
  /\ currentConversation.messages[Len(currentConversation.messages)].content = lastOp.content

\* the current conversation is no longer the one request r was issued from
CurrentChangedSince(r) ==
  /\ r.currentConversation # Null
  /\ \/ currentConversation = Null
     \/ currentConversation.id # r.currentConversation.id

\* C16: when a request settles after the current conversation has changed,
\* its assistant message is appended to the conversation that is current at
\* settlement time and the current pointer still names that conversation; the
\* settlement changes nothing exactly when the current conversation is null.
C16_SettleAppendsToCurrent ==
  [][(lastOp'.op = "settle" /\ CurrentChangedSince(SettledRequest)) =>
       IF currentConversation = Null
       THEN conversations' = conversations /\ currentConversation' = Null
       ELSE LET n == Len(currentConversation.messages)
            IN /\ currentConversation' # Null
               /\ currentConversation'.id = currentConversation.id
               /\ Len(currentConversation'.messages) = n + 1
               /\ SubSeq(currentConversation'.messages, 1, n) = currentConversation.messages
               /\ currentConversation'.messages[n + 1].role = "assistant"
               /\ conversations' = ReplaceById(conversations, currentConversation')]_vars

\* C17 as stated: deleteConversation of the current conversation leaves the
\* pointer null, and the step after it makes the pointer non-null only if it
\* is a createConversation or selectConversation call of the user; nothing is
\* created or selected automatically, also on the chat screen with a stored
\* API key.
C17_NullUntilUserCreatesOrSelects ==
  [][/\ (lastOp'.op = "deleteConversation" /\ lastOp'.wasCurrent) => currentConversation' = Null
     /\ (/\ lastOp.op = "deleteConversation" /\ lastOp.wasCurrent
         /\ currentConversation = Null /\ currentConversation' # Null) =>
          lastOp'.op \in {"createConversation", "selectConversation"}]_vars

\* C17 amended: deleteConversation of the current conversation leaves the
\* pointer null and selects nothing; afterwards the pointer becomes non-null
\* by a createConversation or selectConversation call of the user, by the chat
\* screen's effect, which calls createConversation whenever the screen is
\* mounted with an API key and no current conversation, or by the settlement
\* of a request sent earlier.
C17_NullUntilCreateSelectEffectOrSettle ==
  [][/\ (lastOp'.op = "deleteConversation" /\ lastOp'.wasCurrent) => currentConversation' = Null
     /\ (currentConversation = Null /\ currentConversation' # Null) =>
          \/ lastOp'.op \in {"createConversation", "selectConversation"}
          \/ /\ lastOp'.op = "initialConversationEffect"
             /\ route = "chat" /\ apiKey # Null
             /\ currentConversation' = Head(conversations')
             /\ currentConversation'.messages = <<>>
          \/ /\ lastOp'.op = "settle"
             /\ currentConversation'.id = SettledRequest.currentConversation.id]_vars

\* the effect has created a conversation beside one that was there: the
\* current conversation had been deleted
C17_Witness ==
  /\ lastOp.op = "initialConversationEffect"
  /\ Len(conversations) = 2
  /\ currentConversation = conversations[1]

\* the request fails: the client throws, or the answer has not the shape read
RequestFails(response) ==
  LET settled == ChatCompletionsCreate(response)
  IN IF settled.threw THEN TRUE ELSE FormatCompletion(settled.value).threw

ErrorPrefix == WarningGlyph \o " Error: "

IsErrorMessage(message) ==
  /\ message.role = "assistant"
  /\ IsStringContent(message.content)
  /\ Len(message.content.string) >= Len(ErrorPrefix)
  /\ SubSeq(message.content.string, 1, Len(ErrorPrefix)) = ErrorPrefix

\* C18: every completion request that fails and was issued from a
\* conversation results in exactly one assistant message whose content
\* starts with the warning prefix being appended to the collection: one
\* conversation gains that message after its messages, the others are
\* unchanged.
C18_FailureAppendsOneErrorMessage ==
  [][(/\ lastOp'.op = "settle"
      /\ RequestFails(lastOp'.response)
      /\ SettledRequest.currentConversation # Null) =>
       /\ Len(conversations') = Len(conversations)
       /\ \E k \in 1..Len(conversations) :
            /\ conversations'[k].messages # <<>>
            /\ conversations'[k].messages =
                 Append(conversations[k].messages,
                        conversations'[k].messages[Len(conversations'[k].messages)])
            /\ IsErrorMessage(conversations'[k].messages[Len(conversations'[k].messages)])
            /\ \A j \in 1..Len(conversations) : j # k => conversations'[j] = conversations[j]]_vars

NoSetApiKeyInProgress == \A i \in 1..Len(authTasks) : authTasks[i].kind # "set"

\* C20: whenever the initial load has finished and no setApiKey call is in
\* progress, the in-memory apiKey equals the value persisted under the
\* storage key (null when absent).
C20_ApiKeyMirrorsStorage ==
  (authIsLoading = FALSE /\ NoSetApiKeyInProgress) => apiKey = storage

====
